---- MODULE Spec2Model ----
(***************************************************************************)
(* A model of mtdalgos: the adjacency store (dijkstra/simple.rs), the      *)
(* thread pool (pool/mod.rs) and the multithreaded Dijkstra engine         *)
(* (dijkstra/simple.rs), with the demonstration program (bin/dijkstra.rs). *)
(*                                                                         *)
(* Nodes are 0-based as in the source.  An Option<T> is a sequence of      *)
(* length at most one: None is << >> and Some(x) is <<x>>.                 *)
(***************************************************************************)
EXTENDS Integers, Sequences, FiniteSets, Bags, TLC

VARIABLES
    matrix,       \* AdjacencyMatrix.matrix: [0..total-1 -> Seq(NodeWithCost)]
    pushLog,      \* the calls of AdjacencyMatrix::push made so far, with results
    mainpc,       \* position of the calling (main) thread
    nodes,        \* MtdDijkstra.nodes
    costs,        \* MtdDijkstra.costs: the HashMap source -> Vec<Option<Cost>>
    workers,      \* ThreadPool.workers: worker id -> the worker thread's state
    jobQueue,     \* channel of WorkerMessage (ThreadPool.transmitter -> workers)
    resultChan,   \* channel of ConsolidatedMessage (workers -> ThreadPool.receiver)
    received_ok,  \* ThreadPool.received_ok
    received_err, \* ThreadPool.received_err
    locks,        \* the mutexes: lock name -> the thread that holds it, if any
    caller,       \* locals of the main thread inside calculate() and get()
    calcRet,      \* the values the completed calls of calculate() returned
    getRet,       \* the last completed get(): its argument, the counters it
                  \* read last, and the value it returned
    history       \* what has happened on the two channels so far: the jobs
                  \* submitted and dequeued, the outcomes reported

vars == <<matrix, pushLog, mainpc, nodes, costs, workers, jobQueue, resultChan,
          received_ok, received_err, locks, caller, calcRet, getRet, history>>

storeVars == <<matrix, pushLog>>
engineVars == <<mainpc, nodes, costs, workers, jobQueue, resultChan,
                received_ok, received_err, locks, caller, calcRet, getRet,
                history>>

----------------------------------------------------------------------------
(* Bounds of the model. *)

StoreNodes == 2    \* largest AdjacencyMatrix::new(total) of SpecStore
StorePush == 3     \* number of push calls SpecStore logs
MaxNodes == 3      \* largest AdjacencyMatrix::new(total) given to an engine
MaxCost == 3       \* largest edge cost pushed
MaxPush == 3       \* number of push calls that build the store of an engine
MaxThreads == 2    \* largest thread count given to the pool
MaxHeap == 4       \* largest number of entries the BinaryHeap of a job may hold
                   \* (reached only by jobs on a store with a cycle, whose
                   \* while loop never ends)

CostSet == {1, MaxCost}

None == << >>
Some(x) == <<x>>

Min2(a, b) == IF a <= b THEN a ELSE b
Max2(a, b) == IF a >= b THEN a ELSE b

----------------------------------------------------------------------------
(* AdjacencyMatrix (dijkstra/simple.rs). *)

NodeWithCost(node, cost) == [node |-> node, cost |-> cost]

\* AdjacencyMatrix::new: `total` empty adjacency lists.
AdjacencyMatrixNew(total) == [n \in 0..(total - 1) |-> << >>]

\* AdjacencyMatrix::total
Total(m) == Cardinality(DOMAIN m)

\* AdjacencyMatrix::get_node / Vec::get: Some(list) or None.
GetNode(m, node) == IF node \in DOMAIN m THEN Some(m[node]) ELSE None

\* Index of the first entry of `target` whose node is `to`, 0 when there is none
\* (the `for existing in target.iter_mut()` scan with its `break`).
RECURSIVE FindFrom(_, _, _)
FindFrom(target, to, i) ==
    IF i > Len(target) THEN 0
    ELSE IF target[i].node = to THEN i
    ELSE FindFrom(target, to, i + 1)

FindExisting(target, to) == FindFrom(target, to, 1)

\* How an existing entry's cost and the pushed cost are combined:
\* `existing.cost = max(existing.cost, to.cost)`.
Aggregate(old, new) == Max2(old, new)

\* The adjacency list of `from` after a push that passed the range checks.
PushInto(target, to) ==
    LET i == FindExisting(target, to.node)
    IN  IF i # 0
        THEN [target EXCEPT ![i].cost = Aggregate(target[i].cost, to.cost)]
        ELSE Append(target, to)

\* The range check of push with an off-by-one (a mutant of IndexInvalid).
IndexInvalidOffByOne(m, from, to) == from > Total(m) \/ to.node > Total(m)

\* `from >= self.matrix.len()` or `to.node >= self.matrix.len()`.
IndexInvalid(m, from, to) == from >= Total(m) \/ to.node >= Total(m)

\* push without the self-loop test (a mutant of IsSelfLoop).
IsSelfLoopNever(from, to) == FALSE

\* `from == to.node`
IsSelfLoop(from, to) == from = to.node

\* AdjacencyMatrix::push: the result ("InvalidInput" or "Ok") and the matrix after.
PushOp(m, from, to) ==
    IF IndexInvalid(m, from, to)
    THEN [result |-> "InvalidInput", matrix |-> m]
    ELSE IF IsSelfLoop(from, to)
    THEN [result |-> "Ok", matrix |-> m]
    ELSE IF GetNode(m, from) = None
    THEN [result |-> "AddrNotAvailable", matrix |-> m]
    ELSE [result |-> "Ok", matrix |-> [m EXCEPT ![from] = PushInto(m[from], to)]]

\* A caller pushes an edge onto the store it is building.
Push(from, to) ==
    /\ mainpc = "build"
    /\ Len(pushLog) < StorePush
    /\ LET r == PushOp(matrix, from, to)
       IN  /\ matrix' = r.matrix
           /\ pushLog' = Append(pushLog, [from |-> from, to |-> to,
                                          result |-> r.result,
                                          before |-> matrix, after |-> r.matrix])
    /\ UNCHANGED engineVars

\* Nothing has happened on the channels: no job was submitted (`submitted`)
\* or dequeued (`dequeued`), no Terminate was sent (`terminates`), no outcome
\* was sent into the result channel (`reported`), and none had been sent when
\* reset_log was last called (`reset`).
HistoryInit ==
    [submitted |-> << >>, dequeued |-> << >>, terminates |-> 0,
     reported |-> [ok |-> 0, err |-> 0], reset |-> [ok |-> 0, err |-> 0]]

\* The state of the variables of the engine before an engine exists.
NoEngine ==
    /\ nodes = 0
    /\ costs = << >>
    /\ workers = << >>
    /\ jobQueue = << >>
    /\ resultChan = << >>
    /\ received_ok = 0
    /\ received_err = 0
    /\ locks = << >>
    /\ caller = << >>
    /\ calcRet = << >>
    /\ getRet = << >>
    /\ history = HistoryInit

\* A store fresh from AdjacencyMatrix::new(total), total in 1..StoreNodes.
InitStore ==
    /\ \E total \in 1..StoreNodes : matrix = AdjacencyMatrixNew(total)
    /\ pushLog = << >>
    /\ mainpc = "build"
    /\ NoEngine

\* push is tried with every index up to `total`, the first one out of range.
NextStore ==
    \E from \in 0..Total(matrix), to \in 0..Total(matrix), cost \in CostSet :
        Push(from, NodeWithCost(to, cost))

SpecStore == InitStore /\ [][NextStore]_vars

----------------------------------------------------------------------------
(* Claims about the adjacency store, checked under SpecStore. *)

\* Number of entries of an adjacency list whose destination is `to`.
CountEntries(target, to) == Cardinality({i \in 1..Len(target) : target[i].node = to})

\* The log entries i, i+1 are push(a, (b, c1)) then push(a, (b, c2)), a # b, both
\* in range, on a list of a that held no entry for b before.
DuplicatePair(i) ==
    /\ i \in 1..(Len(pushLog) - 1)
    /\ pushLog[i].from = pushLog[i + 1].from
    /\ pushLog[i].to.node = pushLog[i + 1].to.node
    /\ pushLog[i].from # pushLog[i].to.node
    /\ pushLog[i].result = "Ok"
    /\ pushLog[i + 1].result = "Ok"
    /\ FindExisting(pushLog[i].before[pushLog[i].from], pushLog[i].to.node) = 0

\* C7: after push(a, (b, c1)) then push(a, (b, c2)), a # b in range, the list
\* of a holds a single entry for b, and its cost is the cheaper, min(c1, c2).
C7_DuplicateKeepsCheaper ==
    \A i \in 1..(Len(pushLog) - 1) :
        DuplicatePair(i) =>
            LET a == pushLog[i].from
                b == pushLog[i].to.node
                target == pushLog[i + 1].after[a]
            IN  /\ CountEntries(target, b) = 1
                /\ target[FindExisting(target, b)].cost
                     = Min2(pushLog[i].to.cost, pushLog[i + 1].to.cost)

\* C8: push returns an error if and only if from >= total or to >= total, and
\* a push that returns an error leaves every adjacency list unchanged.
C8_PushErrorIffOutOfRange ==
    \A i \in 1..Len(pushLog) :
        LET e == pushLog[i]
        IN  /\ (e.result # "Ok") <=>
                   (e.from >= Total(e.before) \/ e.to.node >= Total(e.before))
            /\ (e.result # "Ok") => (e.after = e.before)

\* The boundary cases of C8 have happened: a push with both indices total-1
\* at most succeeded with from = total-1, one with to = total failed, and one
\* with from = to = total failed, on a store that already holds an edge.
C8_Witness ==
    /\ Len(pushLog) = 3
    /\ pushLog[1].result = "Ok"
    /\ pushLog[1].from = Total(matrix) - 1
    /\ pushLog[1].after # pushLog[1].before
    /\ pushLog[2].result # "Ok"
    /\ pushLog[2].from < Total(matrix)
    /\ pushLog[2].to.node = Total(matrix)
    /\ pushLog[3].result # "Ok"
    /\ pushLog[3].from = Total(matrix)
    /\ pushLog[3].to.node = Total(matrix)

\* C9: no adjacency list ever holds an edge to its own origin, and
\* push(n, (n, cost)) with n in range returns Ok and leaves the store unchanged.
C9_NoSelfLoops ==
    /\ \A n \in DOMAIN matrix : CountEntries(matrix[n], n) = 0
    /\ \A i \in 1..Len(pushLog) :
          LET e == pushLog[i]
          IN  (e.from = e.to.node /\ e.from < Total(e.before)) =>
                  (e.result = "Ok" /\ e.after = e.before)

\* A self-loop was pushed, in range, onto a store whose list of that node
\* already held an edge.
C9_Witness ==
    \E i \in 1..Len(pushLog) :
        /\ pushLog[i].from = pushLog[i].to.node
        /\ pushLog[i].from < Total(pushLog[i].before)
        /\ Len(pushLog[i].before[pushLog[i].from]) > 0
        /\ pushLog[i].result = "Ok"


----------------------------------------------------------------------------
(* ThreadPool and Worker (pool/mod.rs). *)

\* The mutexes.  job_tx: ThreadPool.transmitter; job_rx: the workers' shared
\* Receiver<WorkerMessage>; result_tx: the workers' shared
\* Sender<ConsolidatedMessage>; result_rx: ThreadPool.receiver; matrix and
\* costs: the two mutexes of MtdDijkstra.
LockNames == {"job_tx", "job_rx", "result_tx", "result_rx", "matrix", "costs"}

\* A mutex is held by nobody (None) or by a worker thread (Some(id)).
Free == None
Acquire(l, who) == [locks EXCEPT ![l] = Some(who)]

\* A guard whose drop leaves the mutex locked (a mutant of Release).
ReleaseNever(l) == locks

Release(l) == [locks EXCEPT ![l] = Free]

\* WorkerMessage
JobMessage(node) == [type |-> "Job", node |-> node]
TerminateMessage == [type |-> "Terminate"]

\* A worker thread at the top of its loop, with no job in hand.
WorkerIdle(pc) ==
    [pc |-> pc, node |-> None, distances |-> << >>, unvisited |-> EmptyBag,
     current |-> None, outcome |-> None]

\* Worker::new: the spawned thread starts at the top of its loop.
WorkerNew == WorkerIdle("lock_recv")

\* ThreadPool::new with one worker too many (a mutant of PoolWorkers).
PoolWorkersOneMore(threads) == [id \in 0..threads |-> WorkerNew]

\* `for id in 0..threads { workers.push(Worker::new(..)) }`
PoolWorkers(threads) == [id \in 0..(threads - 1) |-> WorkerNew]

\* `if threads < 1 { return Err(..) }`
ThreadsInvalid(threads) == threads < 1

\* read_receiver: `while let Ok(message) = receiver.lock().try_recv()` counts
\* every message pending in the result channel and leaves the channel empty.
RECURSIVE CountOutcome(_, _)
CountOutcome(chan, what) ==
    IF chan = << >> THEN 0
    ELSE (IF Head(chan) = what THEN 1 ELSE 0) + CountOutcome(Tail(chan), what)

\* read_receiver that takes one pending message at most (a mutant of
\* ReadReceiver).
ReadReceiverOnce ==
    /\ locks["result_rx"] = Free
    /\ received_ok' = received_ok
           + (IF resultChan # << >> /\ Head(resultChan) = "Ok" THEN 1 ELSE 0)
    /\ received_err' = received_err
           + (IF resultChan # << >> /\ Head(resultChan) = "Err" THEN 1 ELSE 0)
    /\ resultChan' = IF resultChan = << >> THEN << >> ELSE Tail(resultChan)

ReadReceiver ==
    /\ locks["result_rx"] = Free
    /\ received_ok' = received_ok + CountOutcome(resultChan, "Ok")
    /\ received_err' = received_err + CountOutcome(resultChan, "Err")
    /\ resultChan' = << >>

----------------------------------------------------------------------------
(* The job of MtdDijkstra::calculate (dijkstra/simple.rs, lines 189-245). *)

\* `distances.resize(nodes, None); *distances.get_mut(node) = Some(0)`
InitialDistances(n, node) == [i \in 0..(n - 1) |-> IF i = node THEN Some(0) ELSE None]

\* BinaryHeap::pop with the inverted Ord of NodeWithCost: an entry of least
\* cost; which one among entries of equal cost is the heap's choice.
PopCandidates(unvisited) ==
    {e \in BagToSet(unvisited) : \A o \in BagToSet(unvisited) : e.cost <= o.cost}

HeapPush(unvisited, e) == unvisited (+) SetToBag({e})
HeapRemove(unvisited, e) == unvisited (-) SetToBag({e})

\* The relaxation of one edge that never lowers a known distance (a mutant of
\* Relax).
RelaxNoImprove(st, current, adjacent) ==
    IF adjacent.node \notin DOMAIN st.distances
    THEN [st EXCEPT !.ok = FALSE]
    ELSE IF st.distances[adjacent.node] # None
    THEN [st EXCEPT !.unvisited = HeapPush(st.unvisited,
                        NodeWithCost(adjacent.node, st.distances[adjacent.node][1]))]
    ELSE [st EXCEPT !.distances[adjacent.node] = Some(current.cost + adjacent.cost),
                    !.unvisited = HeapPush(st.unvisited,
                        NodeWithCost(adjacent.node, current.cost + adjacent.cost))]

\* The relaxation of one edge that skips unvisited neighbours (a mutant of Relax).
RelaxSkipUnvisited(st, current, adjacent) ==
    IF adjacent.node \notin DOMAIN st.distances
    THEN [st EXCEPT !.ok = FALSE]
    ELSE IF st.distances[adjacent.node] # None
    THEN LET distance == st.distances[adjacent.node][1]
             new_distance == IF distance > current.cost + adjacent.cost
                             THEN current.cost + adjacent.cost
                             ELSE distance
         IN  [st EXCEPT !.distances[adjacent.node] = Some(new_distance),
                        !.unvisited = HeapPush(st.unvisited,
                                          NodeWithCost(adjacent.node, new_distance))]
    ELSE st

\* The body of `for adjacent in ..` (lines 214-234) for one edge.  st is
\* [ok, distances, unvisited]; ok becomes FALSE when unwrapoption! returns
\* the error (adjacent.node is no index of distances).
Relax(st, current, adjacent) ==
    IF adjacent.node \notin DOMAIN st.distances
    THEN [st EXCEPT !.ok = FALSE]
    ELSE IF st.distances[adjacent.node] # None
    THEN LET distance == st.distances[adjacent.node][1]
             new_distance == IF distance > current.cost + adjacent.cost
                             THEN current.cost + adjacent.cost
                             ELSE distance
         IN  [st EXCEPT !.distances[adjacent.node] = Some(new_distance),
                        !.unvisited = HeapPush(st.unvisited,
                                          NodeWithCost(adjacent.node, new_distance))]
    ELSE [st EXCEPT !.distances[adjacent.node] = Some(current.cost + adjacent.cost),
                    !.unvisited = HeapPush(st.unvisited,
                        NodeWithCost(adjacent.node, current.cost + adjacent.cost))]

\* The `for adjacent in ..` loop over an adjacency list, from its entry i on;
\* it stops at the first error.
RECURSIVE RelaxAll(_, _, _, _)
RelaxAll(st, current, adjacents, i) ==
    IF i > Len(adjacents) \/ ~st.ok THEN st
    ELSE RelaxAll(Relax(st, current, adjacents[i]), current, adjacents, i + 1)

\* One pass of `while !unvisited.is_empty()` that popped `current`
\* (lines 203-235): a stale entry is skipped, otherwise the edges of
\* current.node are relaxed under the lock of the matrix.
Iterate(m, distances, unvisited, current) ==
    LET st == [ok |-> TRUE, distances |-> distances,
               unvisited |-> HeapRemove(unvisited, current)]
    IN  IF current.node \notin DOMAIN distances
        THEN [st EXCEPT !.ok = FALSE]
        ELSE IF Some(current.cost) # distances[current.node]
        THEN st
        ELSE IF GetNode(m, current.node) = None
        THEN [st EXCEPT !.ok = FALSE]
        ELSE RelaxAll(st, current, m[current.node], 1)

\* HashMap::insert
MapInsert(map, key, value) ==
    [k \in (DOMAIN map) \cup {key} |-> IF k = key THEN value ELSE map[k]]

----------------------------------------------------------------------------
(* The worker threads (pool/mod.rs, lines 190-209). *)

\* `receiver.lock().unwrap()`: the worker takes the lock of the job queue.
WorkerLockRecv(w) ==
    /\ workers[w].pc = "lock_recv"
    /\ locks["job_rx"] = Free
    /\ locks' = Acquire("job_rx", w)
    /\ workers' = [workers EXCEPT ![w].pc = "recv"]
    /\ UNCHANGED <<storeVars, history, mainpc, nodes, costs, jobQueue, resultChan,
                   received_ok, received_err, caller, calcRet, getRet>>

\* `.recv().unwrap()` under that lock, which the end of the statement
\* releases; then `match message`.
WorkerRecv(w) ==
    /\ workers[w].pc = "recv"
    /\ jobQueue # << >>
    /\ jobQueue' = Tail(jobQueue)
    /\ locks' = Release("job_rx")
    /\ workers' = [workers EXCEPT ![w] =
          IF Head(jobQueue).type = "Job"
          THEN [WorkerIdle("lock_tx") EXCEPT !.node = Some(Head(jobQueue).node)]
          ELSE WorkerIdle("exited")]
    /\ history' = IF Head(jobQueue).type = "Job"
                  THEN [history EXCEPT !.dequeued = Append(@, Head(jobQueue).node)]
                  ELSE history
    /\ UNCHANGED <<storeVars, mainpc, nodes, costs, resultChan,
                   received_ok, received_err, caller, calcRet, getRet>>

\* `transmitter.lock().unwrap()` is evaluated before the argument `job()` of
\* `.send(..)`: the worker takes the lock of the result channel and then
\* starts the job (lines 191-200 of dijkstra/simple.rs).
WorkerLockTx(w) ==
    /\ workers[w].pc = "lock_tx"
    /\ locks["result_tx"] = Free
    /\ locks' = Acquire("result_tx", w)
    /\ workers' = [workers EXCEPT ![w] =
          LET node == workers[w].node[1]
          IN  IF node \notin 0..(nodes - 1)
              THEN [@ EXCEPT !.pc = "send", !.outcome = Some("Err")]
              ELSE [@ EXCEPT !.pc = "job_loop",
                             !.distances = InitialDistances(nodes, node),
                             !.unvisited = SetToBag({NodeWithCost(node, 0)})]]
    /\ UNCHANGED <<storeVars, history, mainpc, nodes, costs, jobQueue, resultChan,
                   received_ok, received_err, caller, calcRet, getRet>>

\* One pass of the while loop of the job.
JobIterate(w) ==
    /\ workers[w].pc = "job_loop"
    /\ workers[w].unvisited # EmptyBag
    /\ locks["matrix"] = Free
    /\ \E current \in PopCandidates(workers[w].unvisited) :
          LET st == Iterate(matrix, workers[w].distances, workers[w].unvisited,
                            current)
          IN  /\ BagCardinality(st.unvisited) <= MaxHeap
              /\ workers' = [workers EXCEPT ![w] =
                    IF st.ok
                    THEN [@ EXCEPT !.distances = st.distances,
                                   !.unvisited = st.unvisited]
                    ELSE [@ EXCEPT !.pc = "send", !.outcome = Some("Err"),
                                   !.distances = << >>, !.unvisited = EmptyBag]]
    /\ UNCHANGED <<storeVars, history, mainpc, nodes, costs, jobQueue, resultChan,
                   received_ok, received_err, locks, caller, calcRet, getRet>>

\* The loop has ended: `costs.lock()`, `inner_cost.insert(node, distances)`,
\* `return Ok(())`.
JobInsert(w) ==
    /\ workers[w].pc = "job_loop"
    /\ workers[w].unvisited = EmptyBag
    /\ locks["costs"] = Free
    /\ costs' = MapInsert(costs, workers[w].node[1], workers[w].distances)
    /\ workers' = [workers EXCEPT ![w] =
          [@ EXCEPT !.pc = "send", !.outcome = Some("Ok"),
                    !.distances = << >>]]
    /\ UNCHANGED <<storeVars, history, mainpc, nodes, jobQueue, resultChan,
                   received_ok, received_err, locks, caller, calcRet, getRet>>

\* A worker that ends its thread after sending a failure (a mutant of
\* WorkerSend).
WorkerSendEndsOnErr(w) ==
    /\ workers[w].pc = "send"
    /\ locks["result_tx"] = Some(w)
    /\ resultChan' = Append(resultChan, workers[w].outcome[1])
    /\ locks' = Release("result_tx")
    /\ workers' = [workers EXCEPT ![w] =
          IF workers[w].outcome = Some("Ok") THEN WorkerIdle("lock_recv")
          ELSE WorkerIdle("exited")]
    /\ history' = IF workers[w].outcome = Some("Ok")
                  THEN [history EXCEPT !.reported.ok = @ + 1]
                  ELSE [history EXCEPT !.reported.err = @ + 1]
    /\ UNCHANGED <<storeVars, mainpc, nodes, costs, jobQueue,
                   received_ok, received_err, caller, calcRet, getRet>>

\* `.send(job()).unwrap()`: the outcome goes into the result channel and the
\* lock taken before the job is released.
WorkerSend(w) ==
    /\ workers[w].pc = "send"
    /\ locks["result_tx"] = Some(w)
    /\ resultChan' = Append(resultChan, workers[w].outcome[1])
    /\ locks' = Release("result_tx")
    /\ workers' = [workers EXCEPT ![w] = WorkerIdle("lock_recv")]
    /\ history' = IF workers[w].outcome = Some("Ok")
                  THEN [history EXCEPT !.reported.ok = @ + 1]
                  ELSE [history EXCEPT !.reported.err = @ + 1]
    /\ UNCHANGED <<storeVars, mainpc, nodes, costs, jobQueue,
                   received_ok, received_err, caller, calcRet, getRet>>

WorkerStep(w) ==
    \/ WorkerLockRecv(w)
    \/ WorkerRecv(w)
    \/ WorkerLockTx(w)
    \/ JobIterate(w)
    \/ JobInsert(w)
    \/ WorkerSend(w)


----------------------------------------------------------------------------
(* MtdDijkstra as its caller drives it (dijkstra/simple.rs, lines 166-275). *)

\* The stores that at most k calls of push build from AdjacencyMatrix::new(total);
\* the indices pushed go up to `total`, the first one out of range.
RECURSIVE StoresAfter(_, _)
StoresAfter(total, k) ==
    IF k = 0 THEN {AdjacencyMatrixNew(total)}
    ELSE LET prev == StoresAfter(total, k - 1)
         IN  prev \cup {PushOp(m, from, NodeWithCost(to, cost)).matrix :
                          m \in prev, from \in 0..total, to \in 0..total,
                          cost \in CostSet}

\* MtdDijkstra::new(threads, n, matrix), with ThreadPool::new(threads) inside.
MtdDijkstraNew(threads, n) ==
    /\ mainpc = "start"
    /\ IF ThreadsInvalid(threads)
       THEN /\ mainpc' = "new_failed"
            /\ UNCHANGED <<nodes, workers, locks>>
       ELSE /\ mainpc' = "ready"
            /\ nodes' = n
            /\ workers' = PoolWorkers(threads)
            /\ locks' = [l \in LockNames |-> Free]
    /\ UNCHANGED <<storeVars, history, costs, jobQueue, resultChan, received_ok,
                   received_err, caller, calcRet, getRet>>

\* The caller enters calculate(): `for node in 0..self.nodes`.  The callers
\* modelled here call calculate() once per engine.
Calculate ==
    /\ mainpc = "ready"
    /\ calcRet = None
    /\ mainpc' = "calculate"
    /\ caller' = [node |-> 0]
    /\ UNCHANGED <<storeVars, history, nodes, costs, workers, jobQueue, resultChan,
                   received_ok, received_err, locks, calcRet, getRet>>

\* The Receiver<WorkerMessage> lives in the closures of the worker threads:
\* it is dropped once every worker thread has ended.
ReceiverGone ==
    \A w \in DOMAIN workers : workers[w].pc \in {"exited", "panicked"}

\* execute on a rendezvous channel: it fails unless a worker is waiting in
\* recv (a mutant of ExecuteFails).
ExecuteFailsUnlessWaiting ==
    \A w \in DOMAIN workers : workers[w].pc # "recv"

\* ThreadPool::execute returns the error of unwrapsender!: `send` fails when
\* the receiving side of the job queue no longer exists.
ExecuteFails == ReceiverGone

\* execute that puts the job at the front of the queue (a mutant of Execute).
ExecuteAtFront(job) ==
    /\ locks["job_tx"] = Free
    /\ jobQueue' = <<JobMessage(job)>> \o jobQueue
    /\ history' = [history EXCEPT !.submitted = Append(@, job)]

\* ThreadPool::execute: `transmitter.lock().send(WorkerMessage::Job(job))`.
Execute(job) ==
    /\ locks["job_tx"] = Free
    /\ jobQueue' = Append(jobQueue, JobMessage(job))
    /\ history' = [history EXCEPT !.submitted = Append(@, job)]

\* One pass of the loop of calculate(): `self.pool.execute(..)?`, or its
\* `return Ok(())`.
CalculateStep ==
    /\ mainpc = "calculate"
    /\ IF caller.node < nodes
       THEN IF ExecuteFails
            THEN /\ mainpc' = "ready"
                 /\ caller' = << >>
                 /\ calcRet' = Append(calcRet, "Err")
                 /\ UNCHANGED <<jobQueue, history>>
            ELSE /\ Execute(caller.node)
                 /\ caller' = [caller EXCEPT !.node = @ + 1]
                 /\ UNCHANGED <<mainpc, calcRet>>
       ELSE /\ mainpc' = "ready"
            /\ caller' = << >>
            /\ calcRet' = Append(calcRet, "Ok")
            /\ UNCHANGED <<jobQueue, history>>
    /\ UNCHANGED <<storeVars, nodes, costs, workers, resultChan,
                   received_ok, received_err, locks, getRet>>

\* The caller enters get(node): `jobs_ok = 0; jobs_err = 0`.
GetCall(node) ==
    /\ mainpc = "ready"
    /\ mainpc' = "get_loop"
    /\ caller' = [node |-> node, jobs_ok |-> 0, jobs_err |-> 0]
    /\ UNCHANGED <<storeVars, history, nodes, costs, workers, jobQueue, resultChan,
                   received_ok, received_err, locks, calcRet, getRet>>

\* The loop condition of get that stops one job short (a mutant of GetWaits).
GetWaitsOneShort(jobs_ok, jobs_err) == jobs_ok < nodes - 1 /\ jobs_err = 0

\* `while jobs_ok < self.nodes && jobs_err == 0`
GetWaits(jobs_ok, jobs_err) == jobs_ok < nodes /\ jobs_err = 0

\* get without the test of jobs_err after the loop (a mutant of GetFailed).
GetFailedNever(jobs_err) == FALSE

\* `if jobs_err > 0 { return None; }`
GetFailed(jobs_err) == jobs_err > 0

\* `self.costs.lock()...get(&node)?.clone()`
CostsGet(node) == IF node \in DOMAIN costs THEN Some(costs[node]) ELSE None

\* The loop test of get(): another round (after the sleep), or what follows
\* the loop and the return.
GetLoop ==
    /\ mainpc = "get_loop"
    /\ IF GetWaits(caller.jobs_ok, caller.jobs_err)
       THEN /\ mainpc' = "get_jobs_ok"
            /\ UNCHANGED <<caller, getRet>>
       ELSE /\ locks["costs"] = Free
            /\ mainpc' = "ready"
            /\ caller' = << >>
            /\ getRet' = [node |-> caller.node,
                          jobs_ok |-> caller.jobs_ok,
                          jobs_err |-> caller.jobs_err,
                          value |-> IF GetFailed(caller.jobs_err) THEN None
                                    ELSE CostsGet(caller.node)]
    /\ UNCHANGED <<storeVars, history, nodes, costs, workers, jobQueue, resultChan,
                   received_ok, received_err, locks, calcRet>>

\* `jobs_ok = self.pool.jobs_ok().ok()?`
GetJobsOk ==
    /\ mainpc = "get_jobs_ok"
    /\ ReadReceiver
    /\ caller' = [caller EXCEPT !.jobs_ok = received_ok']
    /\ mainpc' = "get_jobs_err"
    /\ UNCHANGED <<storeVars, history, nodes, costs, workers, jobQueue, locks, calcRet,
                   getRet>>

\* `jobs_err = self.pool.jobs_err().ok()?`
GetJobsErr ==
    /\ mainpc = "get_jobs_err"
    /\ ReadReceiver
    /\ caller' = [caller EXCEPT !.jobs_err = received_err']
    /\ mainpc' = "get_loop"
    /\ UNCHANGED <<storeVars, history, nodes, costs, workers, jobQueue, locks, calcRet,
                   getRet>>

\* The steps of the calling thread once the engine exists; get is called
\* with the nodes of the engine.
MainStep ==
    \/ Calculate
    \/ CalculateStep
    \/ \E node \in 0..(nodes - 1) : GetCall(node)
    \/ GetLoop
    \/ GetJobsOk
    \/ GetJobsErr

\* A store built by push, in the hands of a caller about to build the engine.
Init ==
    /\ \E total \in 1..MaxNodes : matrix \in StoresAfter(total, MaxPush)
    /\ pushLog = << >>
    /\ mainpc = "start"
    /\ NoEngine

\* The engine is built with node_count equal to the store's total.
Next ==
    \/ \E threads \in 0..MaxThreads : MtdDijkstraNew(threads, Total(matrix))
    \/ MainStep
    \/ \E w \in DOMAIN workers : WorkerStep(w)

Spec == Init /\ [][Next]_vars


----------------------------------------------------------------------------
(* Claims about the engine, checked under Spec. *)

\* The costs of the paths from u to d that visit no node twice and none of
\* `visited`: the brute-force reference for the shortest-path cost.
RECURSIVE PathCosts(_, _, _, _)
PathCosts(m, u, d, visited) ==
    IF u = d THEN {0}
    ELSE UNION {{m[u][i].cost + c :
                    c \in PathCosts(m, m[u][i].node, d, visited \cup {u})} :
                i \in {j \in 1..Len(m[u]) : m[u][j].node \notin visited \cup {u}}}

SetMin(S) == CHOOSE x \in S : \A y \in S : x <= y

\* The nodes reachable from the nodes of S through stored edges.
RECURSIVE ReachableFrom(_, _)
ReachableFrom(m, S) ==
    LET next == S \cup UNION {{m[u][i].node : i \in 1..Len(m[u])} : u \in S}
    IN  IF next = S THEN S ELSE ReachableFrom(m, next)

\* get() has returned a present DistanceVector.
GetPresent == getRet # << >> /\ getRet.value # None

\* C1: whenever get(source) returns a present DistanceVector (node_count
\* equal to the store's total), its value at every destination reachable from
\* source is the least cost of a path from source to it, as the brute-force
\* reference computes it.
C1_ShortestPathCost ==
    (GetPresent /\ nodes = Total(matrix)) =>
        \A d \in DOMAIN matrix :
            LET ref == PathCosts(matrix, getRet.node, d, {})
            IN  ref # {} => getRet.value[1][d] = Some(SetMin(ref))

\* get() returned a distance that is cheaper than the direct edge to that
\* destination: the path through a third node won.
C1_Witness ==
    /\ GetPresent
    /\ nodes = Total(matrix)
    /\ \E i \in 1..Len(matrix[getRet.node]) :
          LET adjacent == matrix[getRet.node][i]
          IN  /\ getRet.value[1][adjacent.node] # None
              /\ getRet.value[1][adjacent.node][1] < adjacent.cost

\* C4: a present result of get(source) has length node_count, holds None at
\* exactly the nodes that no path of stored edges reaches from source, Some at
\* the others, and Some(0) at source.
C4_NoneIffUnreachable ==
    (GetPresent /\ nodes = Total(matrix)) =>
        LET vector == getRet.value[1]
        IN  /\ DOMAIN vector = 0..(nodes - 1)
            /\ \A i \in DOMAIN vector :
                  (vector[i] = None) <=> (i \notin ReachableFrom(matrix, {getRet.node}))
            /\ \A i \in DOMAIN vector : Len(vector[i]) <= 1
            /\ vector[getRet.node] = Some(0)

\* get() returned a vector with an unreachable node and, besides the source,
\* a reachable one.
C4_Witness ==
    /\ GetPresent
    /\ nodes = Total(matrix)
    /\ \E i \in DOMAIN getRet.value[1] : getRet.value[1][i] = None
    /\ \E i \in DOMAIN getRet.value[1] :
          getRet.value[1][i] # None /\ i # getRet.node

\* C10: ThreadPool::new(0) fails and starts no worker; ThreadPool::new(n),
\* n >= 1, succeeds with exactly n workers, each at the top of its loop about
\* to receive from the job queue, and both counters 0.
C10_PoolNew ==
    [][\A threads \in 0..MaxThreads :
          MtdDijkstraNew(threads, Total(matrix)) =>
              IF threads = 0
              THEN mainpc' = "new_failed" /\ workers' = << >>
              ELSE /\ mainpc' = "ready"
                   /\ DOMAIN workers' = 0..(threads - 1)
                   /\ \A w \in DOMAIN workers' : workers'[w] = WorkerNew
                   /\ \A l \in LockNames : locks'[l] = Free
                   /\ jobQueue' = << >>
                   /\ received_ok' = 0
                   /\ received_err' = 0]_vars

\* A pool of MaxThreads workers has just been built.
C10_Witness ==
    /\ mainpc = "ready"
    /\ calcRet = None
    /\ getRet = << >>
    /\ Cardinality(DOMAIN workers) = MaxThreads
    /\ \A w \in DOMAIN workers : workers[w] = WorkerNew


\* s is a prefix of t.
IsPrefix(s, t) == Len(s) <= Len(t) /\ \A i \in 1..Len(s) : s[i] = t[i]

\* The sources 0, 1, .., n-1 in ascending order.
Ascending(n) == [i \in 1..n |-> i - 1]

\* The worker is inside the body of a job.
InJobBody(w) == workers[w].pc = "job_loop"

\* At most one worker is inside the body of a job.
JobsSerialized ==
    \A v, w \in DOMAIN workers : (InJobBody(v) /\ InJobBody(w)) => v = w

\* C15: workers execute job bodies concurrently, only the dequeue and the
\* write of the outcome being serialized by a lock: a worker that has
\* dequeued a job is never kept from starting it by a worker that is inside
\* a job body.
C15_JobsRunConcurrently ==
    \A v, w \in DOMAIN workers :
        (workers[v].pc = "lock_tx" /\ locks["result_tx"] = Some(w)) => ~InJobBody(w)

\* C16: the jobs are dequeued in the order in which execute submitted them:
\* at every moment the sequence of the jobs dequeued so far, by whichever
\* worker, is a prefix of the sequence of the jobs submitted.
C16_DequeueInSubmissionOrder == IsPrefix(history.dequeued, history.submitted)

\* Two workers dequeued the jobs of sources 0 and 1 in that order, and the
\* job of source 1 completed first.
C16_Witness ==
    /\ Len(history.dequeued) >= 2
    /\ Cardinality(DOMAIN workers) >= 2
    /\ 1 \in DOMAIN costs
    /\ 0 \notin DOMAIN costs

\* C17: calculate() submits one job per source in ascending order, node_count
\* jobs when it returns; it is never blocked, whatever the workers do; and
\* while the receiving side of the job queue exists it returns Ok.
C17_CalculateSubmitsAll ==
    /\ mainpc = "calculate" =>
          /\ history.submitted = Ascending(caller.node)
          /\ ENABLED CalculateStep
    /\ calcRet # None =>
          /\ history.submitted = Ascending(nodes)
          /\ calcRet = Some("Ok") \/ ReceiverGone

\* calculate() has returned Ok with several jobs submitted, before any
\* worker dequeued one.
C17_Witness ==
    /\ calcRet = Some("Ok")
    /\ nodes >= 2
    /\ Len(history.submitted) = nodes
    /\ history.dequeued = << >>
    /\ Len(jobQueue) = nodes

\* C19: when a non-stale entry popped from the heap relaxes an edge, the
\* neighbour's distance is updated and an entry pushed onto the heap only
\* if the neighbour was unvisited or the candidate is strictly smaller than
\* its distance; otherwise the distances and the heap stay as they are.
C19_PushOnlyOnImprovement ==
    \A w \in DOMAIN workers :
        InJobBody(w) =>
            \A current \in PopCandidates(workers[w].unvisited) :
                (/\ current.node \in DOMAIN matrix
                 /\ Some(current.cost) = workers[w].distances[current.node]) =>
                    \A i \in 1..Len(matrix[current.node]) :
                        LET adjacent == matrix[current.node][i]
                            st == [ok |-> TRUE, distances |-> workers[w].distances,
                                   unvisited |-> HeapRemove(workers[w].unvisited, current)]
                            after == Relax(st, current, adjacent)
                            known == st.distances[adjacent.node]
                            candidate == current.cost + adjacent.cost
                        IN  IF known = None \/ candidate < known[1]
                            THEN /\ after.distances[adjacent.node] = Some(candidate)
                                 /\ after.unvisited =
                                       HeapPush(st.unvisited,
                                                NodeWithCost(adjacent.node, candidate))
                            ELSE /\ after.distances = st.distances
                                 /\ after.unvisited = st.unvisited


----------------------------------------------------------------------------
(* The engine built with a node_count that differs from the store's total. *)

MismatchPush == 2  \* number of push calls that build a store of SpecMismatch

InitMismatch ==
    /\ \E total \in 2..MaxNodes : matrix \in StoresAfter(total, MismatchPush)
    /\ pushLog = << >>
    /\ mainpc = "start"
    /\ NoEngine

\* The engine is built with a node_count below or above the store's total.
NextMismatch ==
    \/ \E threads \in 1..MaxThreads, n \in (1..MaxNodes) \ {Total(matrix)} :
          MtdDijkstraNew(threads, n)
    \/ MainStep
    \/ \E w \in DOMAIN workers : WorkerStep(w)

SpecMismatch == InitMismatch /\ [][NextMismatch]_vars

\* C6: when get() has read a failure count above 0, it returns an absent
\* result whatever the source, also for a source whose own job succeeded and
\* whose entry is in the result table.
C6_AnyFailureBlocksAll ==
    (getRet # << >> /\ getRet.jobs_err > 0) => getRet.value = None

\* get(source) returned after reading a failure, for a source whose entry a
\* successful job had inserted.
C6_Witness ==
    /\ getRet # << >>
    /\ getRet.jobs_err > 0
    /\ getRet.jobs_ok > 0
    /\ getRet.node \in DOMAIN costs
    /\ getRet.value = None

\* The worker has dequeued a job whose outcome it has not sent yet.
JobInHand(w) == workers[w].pc \in {"lock_tx", "job_loop", "send"}

\* The worker's job has returned Ok and its outcome is not sent yet.
OkInHand(w) == workers[w].pc = "send" /\ workers[w].outcome = Some("Ok")

\* C18: every dequeued job that is over has reported exactly one outcome and
\* the result table holds exactly one entry per job that succeeded; the step
\* in which a job fails inserts nothing, and the worker then sends exactly
\* one failure and is back at the top of its loop, ready for the next job.
C18_FailureIsolated ==
    /\ [](/\ history.reported.ok + history.reported.err
               + Cardinality({w \in DOMAIN workers : JobInHand(w)})
                 = Len(history.dequeued)
          /\ Cardinality(DOMAIN costs)
                 = history.reported.ok
                   + Cardinality({w \in DOMAIN workers : OkInHand(w)}))
    /\ [][\A w \in DOMAIN workers :
            /\ (workers[w].outcome = None /\ workers'[w].outcome = Some("Err"))
                  => costs' = costs
            /\ (workers[w].outcome = Some("Err") /\ workers'[w].outcome = None)
                  => /\ resultChan' = Append(resultChan, "Err")
                     /\ workers'[w] = WorkerNew]_vars

\* The only worker of the pool ran a job that failed and then a job that
\* succeeded and inserted its entry.
C18_Witness ==
    /\ Cardinality(DOMAIN workers) = 1
    /\ resultChan = <<"Err", "Ok">>
    /\ costs # << >>



----------------------------------------------------------------------------
(* The engine under fair scheduling: every thread that can take a step         *)
(* eventually takes one (the threads are OS threads; a blocked thread waits).  *)

LiveNodes == 2     \* largest store of SpecLive

InitLive ==
    /\ \E total \in 1..LiveNodes : matrix \in StoresAfter(total, MaxPush)
    /\ pushLog = << >>
    /\ mainpc = "start"
    /\ NoEngine

Fairness ==
    /\ WF_vars(\E threads \in 0..MaxThreads : MtdDijkstraNew(threads, Total(matrix)))
    /\ WF_vars(MainStep)
    /\ \A w \in 0..(MaxThreads - 1) : WF_vars(w \in DOMAIN workers /\ WorkerStep(w))

SpecLive == InitLive /\ [][Next]_vars /\ Fairness

\* Every node is reachable from every node through stored edges.
Connected(m) == \A u \in DOMAIN m : ReachableFrom(m, {u}) = DOMAIN m

\* C2: on a connected graph, after calculate() every job terminates and the
\* pool eventually reports jobs_ok() == node_count and jobs_err() == 0.
C2_AllJobsSucceed ==
    (calcRet = Some("Ok") /\ Connected(matrix)) ~>
        (received_ok = nodes /\ received_err = 0)

\* The caller is inside get().
InGet == mainpc \in {"get_loop", "get_jobs_ok", "get_jobs_err"}

\* No worker stays inside a job forever.
JobsTerminate ==
    \A w \in 0..(MaxThreads - 1) :
        []<>(~(w \in DOMAIN workers /\ workers[w].pc = "job_loop"))

\* get() returns only when the drained counters have left the waiting
\* region: it has read jobs_ok == node_count or jobs_err > 0.
GetReturnsOnlyWhenDone ==
    [][(InGet /\ mainpc' = "ready") =>
          /\ ~(received_ok' < nodes /\ received_err' = 0)
          /\ getRet'.jobs_ok = nodes \/ getRet'.jobs_err > 0]_vars

\* C5 as stated: get never returns while jobs_ok < node_count and
\* jobs_err == 0, and if every submitted job terminates it eventually returns.
C5_AsStated ==
    /\ GetReturnsOnlyWhenDone
    /\ JobsTerminate => (InGet ~> (mainpc = "ready"))

\* C5, amended: get never returns while jobs_ok < node_count and
\* jobs_err == 0; once calculate() has returned Ok, if every submitted job
\* terminates, get eventually returns.
C5_GetBlocksUntilDone ==
    /\ GetReturnsOnlyWhenDone
    /\ JobsTerminate => ((InGet /\ calcRet = Some("Ok")) ~> (mainpc = "ready"))

\* get() returned after waiting for jobs that were still running when it
\* was called: it read the full count of successes.
C5_Witness ==
    /\ getRet # << >>
    /\ nodes = LiveNodes
    /\ getRet.jobs_ok = nodes
    /\ getRet.jobs_err = 0
    /\ getRet.value # None



----------------------------------------------------------------------------
(* The engine built with a node_count that differs from the store's total,   *)
(* under fair scheduling.                                                    *)

\* Every thread that can take a step eventually takes one, the engine being
\* built with a node_count that differs from the store's total.
FairnessMismatch ==
    /\ WF_vars(\E threads \in 1..MaxThreads, n \in (1..MaxNodes) \ {Total(matrix)} :
                  MtdDijkstraNew(threads, n))
    /\ WF_vars(MainStep)
    /\ \A w \in 0..(MaxThreads - 1) : WF_vars(w \in DOMAIN workers /\ WorkerStep(w))

SpecMismatchLive == InitMismatch /\ [][NextMismatch]_vars /\ FairnessMismatch

\* The sources of the engine that are no node of the store.
MissingSources == {s \in 0..(nodes - 1) : s >= Total(matrix)}

\* The sources of the engine from which an edge to a node that is no source
\* of the engine can be reached.
StraySources ==
    {s \in (0..(nodes - 1)) \cap DOMAIN matrix :
        \E u \in ReachableFrom(matrix, {s}) :
            \E i \in 1..Len(matrix[u]) : matrix[u][i].node >= nodes}

\* A job for a missing source or for a source that reaches a stray edge
\* never ends with Ok: the step that ends it yields Err and inserts nothing,
\* and the job for a missing source ends in its first step.
MismatchedJobFails ==
    [][\A w \in DOMAIN workers :
          /\ (workers[w].outcome = None /\ workers'[w].outcome # None
                 /\ workers[w].node[1] \in MissingSources \cup StraySources)
                => workers'[w].outcome = Some("Err") /\ costs' = costs
          /\ (workers[w].pc = "job_loop" /\ workers'[w] # workers[w]
                 /\ workers[w].node[1] \in MissingSources)
                => workers'[w].outcome = Some("Err")]_vars

\* With a node_count above the store's total the result table never holds
\* an entry for a missing source and get() returns nothing but None.
MismatchedGetAbsent ==
    [](nodes > Total(matrix) =>
          /\ DOMAIN costs \cap MissingSources = {}
          /\ getRet # << >> => getRet.value = None)

\* C22: with a node_count above the store's total, after calculate() the
\* job for every source that is no node of the store reports failure and
\* inserts no entry, and get(x) returns None for every x; with a node_count
\* below the total, the job for every source that reaches an edge to a node
\* at or above node_count reports failure.
C22_MismatchReportsFailure ==
    /\ MismatchedJobFails
    /\ MismatchedGetAbsent
    /\ (calcRet = Some("Ok")) ~>
          (history.reported.err = Cardinality(MissingSources \cup StraySources))
    /\ (InGet /\ calcRet = Some("Ok") /\ nodes > Total(matrix)) ~> (mainpc = "ready")

----------------------------------------------------------------------------
(* The engine whose caller calls calculate() again: nothing in calculate()   *)
(* (dijkstra/simple.rs, lines 183-248) tells a first call from a later one.   *)

MaxCalculate == 2  \* number of calculate() calls on one engine

\* The caller enters calculate() again after an earlier call has returned.
Recalculate ==
    /\ mainpc = "ready"
    /\ calcRet # None
    /\ Len(calcRet) < MaxCalculate
    /\ mainpc' = "calculate"
    /\ caller' = [node |-> 0]
    /\ UNCHANGED <<storeVars, history, nodes, costs, workers, jobQueue,
                   resultChan, received_ok, received_err, locks, calcRet, getRet>>

NextRecalc ==
    \/ \E threads \in 1..MaxThreads : MtdDijkstraNew(threads, Total(matrix))
    \/ MainStep
    \/ Recalculate
    \/ \E w \in DOMAIN workers : WorkerStep(w)

SpecRecalc == InitLive /\ [][NextRecalc]_vars

\* Number of jobs submitted for the source s.
JobsFor(s) ==
    Cardinality({i \in 1..Len(history.submitted) : history.submitted[i] = s})

\* C14: over new, one or more calculate() calls and get() calls, each source
\* is processed by one job only, no insert into the result table replaces
\* an existing entry, and no entry is removed or changed.
C14_EntryInsertedOnce ==
    /\ [](\A s \in 0..(nodes - 1) : JobsFor(s) <= 1)
    /\ [][\A w \in DOMAIN workers :
            JobInsert(w) => workers[w].node[1] \notin DOMAIN costs]_vars
    /\ [][\A s \in DOMAIN costs :
            s \in DOMAIN costs' /\ costs'[s] = costs[s]]_vars


----------------------------------------------------------------------------
(* The demonstration program (bin/dijkstra.rs, run). *)

DemoNodes == 5     \* AdjacencyMatrix::new(5), MtdDijkstra::new(_, 5, _)
DemoThreads == 3   \* MtdDijkstra::new(3, _, _)

\* The pushtomatrix! calls, as (from, to, cost).
DemoEdges == << <<0, 1, 1>>, <<1, 2, 1>>, <<2, 3, 2>>, <<3, 4, 1>>, <<2, 4, 6>> >>

\* The store after the pushes of `edges` from the i-th on.
RECURSIVE PushAll(_, _, _)
PushAll(m, edges, i) ==
    IF i > Len(edges) THEN m
    ELSE PushAll(PushOp(m, edges[i][1], NodeWithCost(edges[i][2], edges[i][3])).matrix,
                 edges, i + 1)

InitDemo ==
    /\ matrix = PushAll(AdjacencyMatrixNew(DemoNodes), DemoEdges, 1)
    /\ pushLog = << >>
    /\ mainpc = "start"
    /\ NoEngine

\* `for node in 0..5 { processor.get(node) }`, after calculate() returned.
DemoGet ==
    /\ calcRet = Some("Ok")
    /\ LET node == IF getRet = << >> THEN 0 ELSE getRet.node + 1
       IN  node < DemoNodes /\ GetCall(node)

NextDemo ==
    \/ MtdDijkstraNew(DemoThreads, DemoNodes)
    \/ Calculate
    \/ CalculateStep
    \/ DemoGet
    \/ GetLoop
    \/ GetJobsOk
    \/ GetJobsErr
    \/ \E w \in DOMAIN workers : WorkerStep(w)

FairnessDemo ==
    /\ WF_vars(MtdDijkstraNew(DemoThreads, DemoNodes))
    /\ WF_vars(Calculate \/ CalculateStep \/ DemoGet \/ GetLoop \/ GetJobsOk
               \/ GetJobsErr)
    /\ \A w \in 0..(DemoThreads - 1) : WF_vars(w \in DOMAIN workers /\ WorkerStep(w))

SpecDemo == InitDemo /\ [][NextDemo]_vars /\ FairnessDemo

\* The DistanceVector the demonstration expects for source 0.
DemoExpected == [i \in 0..(DemoNodes - 1) |-> Some(<<0, 1, 2, 4, 5>>[i + 1])]

\* get(0) has returned.
DemoGot0 == getRet # << >> /\ getRet.node = 0

\* C3: on the 5-node graph of the demonstration with 3 threads, calculate()
\* followed by get(0) terminates in every interleaving and returns exactly
\* [Some(0), Some(1), Some(2), Some(4), Some(5)].
C3_DemoResult ==
    /\ <>DemoGot0
    /\ [](DemoGot0 => getRet.value = Some(DemoExpected))

\* get(0) returned the expected vector after the three workers ran jobs.
C3_Witness ==
    /\ DemoGot0
    /\ getRet.value = Some(DemoExpected)
    /\ getRet.jobs_ok = DemoNodes


----------------------------------------------------------------------------
(* The ThreadPool on its own (pool/mod.rs): a caller that submits closures,  *)
(* reads and resets the counters, and drops the pool.                        *)

MaxJobs == 3       \* number of jobs submitted to one pool

\* A mutex whose holder panicked: lock() returns Err from then on.
Poisoned == Some(-1)

\* A job `F: FnOnce() -> ConsolidatedMessage`, told by its place in the order
\* of submission and by how it ends: it returns Ok(()), returns Err(..), or
\* panics.
Closure(id, ends) == [id |-> id, ends |-> ends]

\* ThreadPool::new(threads)
ThreadPoolNew(threads) ==
    /\ mainpc = "start"
    /\ IF ThreadsInvalid(threads)
       THEN /\ mainpc' = "new_failed"
            /\ UNCHANGED <<workers, locks>>
       ELSE /\ mainpc' = "ready"
            /\ workers' = PoolWorkers(threads)
            /\ locks' = [l \in LockNames |-> Free]
    /\ UNCHANGED <<storeVars, history, nodes, costs, jobQueue, resultChan,
                   received_ok, received_err, caller, calcRet, getRet>>

\* The caller calls execute(function): Err when the send fails, and then
\* nothing is enqueued.
PoolExecute(ends) ==
    /\ mainpc = "ready"
    /\ Len(history.submitted) < MaxJobs
    /\ IF ExecuteFails
       THEN /\ caller' = [op |-> "execute", ret |-> 0, ok |-> FALSE]
            /\ UNCHANGED <<jobQueue, history>>
       ELSE /\ Execute(Closure(Len(history.submitted) + 1, ends))
            /\ caller' = [op |-> "execute", ret |-> 0, ok |-> TRUE]
    /\ UNCHANGED <<storeVars, mainpc, nodes, costs, workers, resultChan,
                   received_ok, received_err, locks, calcRet, getRet>>

\* The caller calls jobs_ok(): `self.read_receiver()?; Ok(self.received_ok)`.
PoolJobsOk ==
    /\ mainpc = "ready"
    /\ ReadReceiver
    /\ caller' = [op |-> "jobs_ok", ret |-> received_ok', ok |-> TRUE]
    /\ UNCHANGED <<storeVars, history, mainpc, nodes, costs, workers, jobQueue,
                   locks, calcRet, getRet>>

\* The caller calls jobs_err(): `self.read_receiver()?; Ok(self.received_err)`.
PoolJobsErr ==
    /\ mainpc = "ready"
    /\ ReadReceiver
    /\ caller' = [op |-> "jobs_err", ret |-> received_err', ok |-> TRUE]
    /\ UNCHANGED <<storeVars, history, mainpc, nodes, costs, workers, jobQueue,
                   locks, calcRet, getRet>>

\* The caller calls reset_log(): both counters become 0; the result channel
\* is not read.
ResetLog ==
    /\ mainpc = "ready"
    /\ received_ok' = 0
    /\ received_err' = 0
    /\ history' = [history EXCEPT !.reset = history.reported]
    /\ caller' = [op |-> "reset_log", ret |-> 0, ok |-> TRUE]
    /\ UNCHANGED <<storeVars, mainpc, nodes, costs, workers, jobQueue,
                   resultChan, locks, calcRet, getRet>>

\* The pool goes out of scope: ThreadPool::drop begins.
Drop ==
    /\ mainpc = "ready"
    /\ mainpc' = "drop_send"
    /\ caller' = [sent |-> 0]
    /\ UNCHANGED <<storeVars, history, nodes, costs, workers, jobQueue,
                   resultChan, received_ok, received_err, locks, calcRet, getRet>>

\* One pass of `for _ in &self.workers { ..send(WorkerMessage::Terminate).unwrap() }`:
\* the unwrap panics when the send fails; after the last pass the joins begin.
DropSend ==
    /\ mainpc = "drop_send"
    /\ IF caller.sent < Cardinality(DOMAIN workers)
       THEN IF ReceiverGone
            THEN /\ mainpc' = "drop_panicked"
                 /\ caller' = << >>
                 /\ UNCHANGED <<jobQueue, history>>
            ELSE /\ locks["job_tx"] = Free
                 /\ jobQueue' = Append(jobQueue, TerminateMessage)
                 /\ history' = [history EXCEPT !.terminates = @ + 1]
                 /\ caller' = [caller EXCEPT !.sent = @ + 1]
                 /\ UNCHANGED mainpc
       ELSE /\ mainpc' = "drop_join"
            /\ caller' = [joined |-> 0]
            /\ UNCHANGED <<jobQueue, history>>
    /\ UNCHANGED <<storeVars, nodes, costs, workers, resultChan, received_ok,
                   received_err, locks, calcRet, getRet>>

\* join() that returns at once (a mutant of ThreadEnded).
ThreadEndedAlways(w) == TRUE

\* The thread of worker w has ended: it returned from its loop or panicked.
ThreadEnded(w) == workers[w].pc \in {"exited", "panicked"}

\* One pass of `for worker in &mut self.workers { thread.join().unwrap() }`:
\* join blocks until the thread has ended and returns Err when it panicked,
\* and then the unwrap panics; after the last pass drop returns.
DropJoin ==
    /\ mainpc = "drop_join"
    /\ IF caller.joined < Cardinality(DOMAIN workers)
       THEN /\ ThreadEnded(caller.joined)
            /\ IF workers[caller.joined].pc = "panicked"
               THEN /\ mainpc' = "drop_panicked"
                    /\ caller' = << >>
               ELSE /\ caller' = [caller EXCEPT !.joined = @ + 1]
                    /\ UNCHANGED mainpc
       ELSE /\ mainpc' = "dropped"
            /\ caller' = << >>
    /\ UNCHANGED <<storeVars, history, nodes, costs, workers, jobQueue,
                   resultChan, received_ok, received_err, locks, calcRet, getRet>>

\* `transmitter.lock().unwrap()` before the closure is called: the unwrap
\* panics when the mutex is poisoned.
ClosureLockTx(w) ==
    /\ workers[w].pc = "lock_tx"
    /\ IF locks["result_tx"] = Poisoned
       THEN /\ workers' = [workers EXCEPT ![w] = WorkerIdle("panicked")]
            /\ UNCHANGED locks
       ELSE /\ locks["result_tx"] = Free
            /\ locks' = Acquire("result_tx", w)
            /\ workers' = [workers EXCEPT ![w].pc = "closure"]
    /\ UNCHANGED <<storeVars, history, mainpc, nodes, costs, jobQueue,
                   resultChan, received_ok, received_err, caller, calcRet, getRet>>

\* `job()` ends: it returns its ConsolidatedMessage, or it panics, which ends
\* the thread and poisons the mutex the worker holds.
ClosureReturn(w) ==
    /\ workers[w].pc = "closure"
    /\ IF workers[w].node[1].ends = "Panic"
       THEN /\ workers' = [workers EXCEPT ![w] = WorkerIdle("panicked")]
            /\ locks' = [locks EXCEPT !["result_tx"] = Poisoned]
       ELSE /\ workers' = [workers EXCEPT ![w] =
                  [@ EXCEPT !.pc = "send", !.outcome = Some(workers[w].node[1].ends)]]
            /\ UNCHANGED locks
    /\ UNCHANGED <<storeVars, history, mainpc, nodes, costs, jobQueue,
                   resultChan, received_ok, received_err, caller, calcRet, getRet>>

PoolWorkerStep(w) ==
    \/ WorkerLockRecv(w)
    \/ WorkerRecv(w)
    \/ ClosureLockTx(w)
    \/ ClosureReturn(w)
    \/ WorkerSend(w)

\* No pool exists yet.
InitPool ==
    /\ matrix = AdjacencyMatrixNew(0)
    /\ pushLog = << >>
    /\ mainpc = "start"
    /\ NoEngine

\* The steps of a pool whose closures end in one of `endings`.
PoolStep(endings) ==
    \/ \E threads \in 0..MaxThreads : ThreadPoolNew(threads)
    \/ \E ends \in endings : PoolExecute(ends)
    \/ PoolJobsOk
    \/ PoolJobsErr
    \/ ResetLog
    \/ Drop
    \/ DropSend
    \/ DropJoin
    \/ \E w \in DOMAIN workers : PoolWorkerStep(w)

\* Once drop has begun the calling thread goes on with it, and every worker
\* thread that can take a step eventually takes one.
FairnessPool ==
    /\ WF_vars(DropSend \/ DropJoin)
    /\ \A w \in 0..(MaxThreads - 1) : WF_vars(w \in DOMAIN workers /\ PoolWorkerStep(w))

\* The closures return Ok or Err.
NextPool == PoolStep({"Ok", "Err"})

SpecPool == InitPool /\ [][NextPool]_vars /\ FairnessPool

\* The closures return Ok or Err, or panic.
NextPoolFault == PoolStep({"Ok", "Err", "Panic"})

SpecPoolFault == InitPool /\ [][NextPoolFault]_vars /\ FairnessPool

----------------------------------------------------------------------------
(* Claims about the pool, checked under SpecPool and SpecPoolFault. *)

\* C11: with jobs that all return, drop sends one Terminate per worker; a
\* worker ends only by taking a Terminate from the queue, with no job in
\* hand; when drop has returned every worker has ended, every Terminate is
\* consumed and every submitted job was dequeued and has reported its
\* outcome; and drop, once begun, returns.
C11_TeardownJoinsAll ==
    /\ [](mainpc = "dropped" =>
            /\ \A w \in DOMAIN workers : workers[w].pc = "exited"
            /\ jobQueue = << >>
            /\ history.terminates = Cardinality(DOMAIN workers)
            /\ history.dequeued = history.submitted
            /\ history.reported.ok + history.reported.err
                   = Len(history.submitted))
    /\ [][\A w \in DOMAIN workers :
            (workers[w].pc # "exited" /\ workers'[w].pc = "exited") =>
                /\ workers[w].pc = "recv"
                /\ Head(jobQueue) = TerminateMessage
                /\ jobQueue' = Tail(jobQueue)]_vars
    /\ (mainpc = "drop_send") ~> (mainpc = "dropped")

\* drop has returned on a pool of MaxThreads workers that ran MaxJobs jobs,
\* some of them failing, whose outcomes nobody had read.
C11_Witness ==
    /\ mainpc = "dropped"
    /\ Cardinality(DOMAIN workers) = MaxThreads
    /\ Len(history.submitted) = MaxJobs
    /\ Len(resultChan) = MaxJobs
    /\ history.reported.err > 0
    /\ history.reported.ok > 0

\* C12: drop does not fault, also when workers have ended by a panic.
C12_TeardownSafe == mainpc # "drop_panicked"

\* C13: jobs_ok() (jobs_err()) returns the number of jobs that reported
\* success (failure) to the result channel since the last reset_log() or
\* since construction, and either call counts every pending result of both
\* kinds and leaves the result channel empty.
C13_CountersSinceReset ==
    [][/\ PoolJobsOk =>
            /\ caller'.ret = history.reported.ok - history.reset.ok
            /\ received_err' = history.reported.err - history.reset.err
            /\ resultChan' = << >>
       /\ PoolJobsErr =>
            /\ caller'.ret = history.reported.err - history.reset.err
            /\ received_ok' = history.reported.ok - history.reset.ok
            /\ resultChan' = << >>]_vars

\* The workers whose thread is at one of the positions pcs.
WorkersAt(pcs) == {w \in DOMAIN workers : workers[w].pc \in pcs}

\* Every worker thread is alive and has no job in hand.
AllWorkersIdle == \A w \in DOMAIN workers : workers[w].pc \in {"lock_recv", "recv"}

\* reset_log() was never called with an outcome reported.
NoResetYet == history.reset = HistoryInit.reset

\* C21: a job whose closure has returned has one outcome, in the worker's
\* hand until it is sent and in the result channel from then on: the result
\* channel grows only by the send of the outcome a worker holds, one per
\* job, and the jobs reported, returned and still running add up to the jobs
\* dequeued (fall short of them by the jobs lost to a panic); the counters
\* and the pending outcomes together never exceed the jobs submitted; and
\* with no reset_log() so far, all workers idle and the job queue empty, a
\* drain leaves received_ok + received_err equal to the jobs submitted.
C21_OutcomeAccounting ==
    /\ [](/\ \A w \in WorkersAt({"send"}) : workers[w].outcome \in {Some("Ok"), Some("Err")}
          /\ history.reported.ok + history.reported.err
                 + Cardinality(WorkersAt({"lock_tx", "closure", "send"}))
                 <= Len(history.dequeued)
          /\ WorkersAt({"panicked"}) = {} =>
                 history.reported.ok + history.reported.err
                 + Cardinality(WorkersAt({"lock_tx", "closure", "send"}))
                 = Len(history.dequeued)
          /\ received_ok + received_err + Len(resultChan)
                 <= Len(history.submitted)
          /\ Len(history.dequeued) <= Len(history.submitted))
    /\ [][/\ resultChan' # resultChan =>
              \/ (PoolJobsOk \/ PoolJobsErr) /\ resultChan' = << >>
              \/ \E w \in WorkersAt({"send"}) :
                    /\ resultChan' = Append(resultChan, workers[w].outcome[1])
                    /\ workers'[w] = WorkerNew
                    /\ \A v \in DOMAIN workers \ {w} : workers'[v] = workers[v]
          /\ \A w \in WorkersAt({"send"}) :
                workers'[w] # workers[w] =>
                    resultChan' = Append(resultChan, workers[w].outcome[1])
          /\ ((PoolJobsOk \/ PoolJobsErr)
                 /\ NoResetYet /\ AllWorkersIdle /\ jobQueue = << >>) =>
                received_ok' + received_err' = Len(history.submitted)]_vars

\* A drain on a pool of MaxThreads idle workers that ran MaxJobs jobs, some
\* failing, has just counted more than one pending outcome.
C21_Witness ==
    /\ caller = [op |-> "jobs_ok", ret |-> received_ok, ok |-> TRUE]
    /\ NoResetYet /\ AllWorkersIdle /\ jobQueue = << >>
    /\ Cardinality(DOMAIN workers) = MaxThreads
    /\ Len(history.submitted) = MaxJobs
    /\ received_ok + received_err = MaxJobs
    /\ received_ok > 1 /\ received_err > 0
    /\ resultChan = << >>


----------------------------------------------------------------------------
(* The engine with every acquisition of a mutex as a step of its own: a      *)
(* thread first waits for the mutex, then holds it until the guard is        *)
(* dropped.  The caller calculates, gets and drops the engine, whose drop    *)
(* is the drop of its pool.                                                  *)

\* A mutex held by the calling thread.
ByCaller == Some(-2)

\* `unvisited.pop()` and the test for a stale entry (lines 203-208): a stale
\* entry is skipped, a fresh one sends the worker to `matrix.lock()`.
JobPop(w) ==
    /\ workers[w].pc = "job_loop"
    /\ workers[w].unvisited # EmptyBag
    /\ \E current \in PopCandidates(workers[w].unvisited) :
          IF /\ current.node \in DOMAIN workers[w].distances
             /\ Some(current.cost) = workers[w].distances[current.node]
          THEN workers' = [workers EXCEPT ![w] =
                  [@ EXCEPT !.pc = "lock_matrix",
                            !.unvisited = HeapRemove(@, current),
                            !.current = Some(current)]]
          ELSE LET st == Iterate(matrix, workers[w].distances,
                                 workers[w].unvisited, current)
               IN  workers' = [workers EXCEPT ![w] =
                      IF st.ok
                      THEN [@ EXCEPT !.unvisited = st.unvisited]
                      ELSE [@ EXCEPT !.pc = "send", !.outcome = Some("Err"),
                                     !.distances = << >>, !.unvisited = EmptyBag]]
    /\ UNCHANGED <<storeVars, history, mainpc, nodes, costs, jobQueue, resultChan,
                   received_ok, received_err, locks, caller, calcRet, getRet>>

\* `unwrapmutex!(matrix.lock())` (line 210)
JobLockMatrix(w) ==
    /\ workers[w].pc = "lock_matrix"
    /\ locks["matrix"] = Free
    /\ locks' = Acquire("matrix", w)
    /\ workers' = [workers EXCEPT ![w].pc = "relax"]
    /\ UNCHANGED <<storeVars, history, mainpc, nodes, costs, jobQueue, resultChan,
                   received_ok, received_err, caller, calcRet, getRet>>

\* The `for adjacent in ..` loop (lines 209-235) under the lock of the matrix,
\* which the end of the loop releases.
JobRelax(w) ==
    /\ workers[w].pc = "relax"
    /\ locks["matrix"] = Some(w)
    /\ LET current == workers[w].current[1]
           st0 == [ok |-> TRUE, distances |-> workers[w].distances,
                   unvisited |-> workers[w].unvisited]
           st == IF GetNode(matrix, current.node) = None
                 THEN [st0 EXCEPT !.ok = FALSE]
                 ELSE RelaxAll(st0, current, matrix[current.node], 1)
       IN  /\ BagCardinality(st.unvisited) <= MaxHeap
           /\ workers' = [workers EXCEPT ![w] =
                 IF st.ok
                 THEN [@ EXCEPT !.pc = "job_loop", !.current = None,
                                !.distances = st.distances,
                                !.unvisited = st.unvisited]
                 ELSE [@ EXCEPT !.pc = "send", !.outcome = Some("Err"),
                                !.current = None,
                                !.distances = << >>, !.unvisited = EmptyBag]]
    /\ locks' = Release("matrix")
    /\ UNCHANGED <<storeVars, history, mainpc, nodes, costs, jobQueue, resultChan,
                   received_ok, received_err, caller, calcRet, getRet>>

\* `while !unvisited.is_empty()` ends (line 202).
JobLoopEnd(w) ==
    /\ workers[w].pc = "job_loop"
    /\ workers[w].unvisited = EmptyBag
    /\ workers' = [workers EXCEPT ![w].pc = "lock_costs"]
    /\ UNCHANGED <<storeVars, history, mainpc, nodes, costs, jobQueue, resultChan,
                   received_ok, received_err, locks, caller, calcRet, getRet>>

\* `unwrapmutex!(costs.lock())` (line 241)
JobLockCosts(w) ==
    /\ workers[w].pc = "lock_costs"
    /\ locks["costs"] = Free
    /\ locks' = Acquire("costs", w)
    /\ workers' = [workers EXCEPT ![w].pc = "insert"]
    /\ UNCHANGED <<storeVars, history, mainpc, nodes, costs, jobQueue, resultChan,
                   received_ok, received_err, caller, calcRet, getRet>>

\* `inner_cost.insert(node, distances); return Ok(())` (lines 242-244): the
\* return drops the guard.
JobStore(w) ==
    /\ workers[w].pc = "insert"
    /\ locks["costs"] = Some(w)
    /\ costs' = MapInsert(costs, workers[w].node[1], workers[w].distances)
    /\ locks' = Release("costs")
    /\ workers' = [workers EXCEPT ![w] =
          [@ EXCEPT !.pc = "send", !.outcome = Some("Ok"),
                    !.distances = << >>]]
    /\ UNCHANGED <<storeVars, history, mainpc, nodes, jobQueue, resultChan,
                   received_ok, received_err, caller, calcRet, getRet>>

LockWorkerStep(w) ==
    \/ WorkerLockRecv(w)
    \/ WorkerRecv(w)
    \/ WorkerLockTx(w)
    \/ JobPop(w)
    \/ JobLockMatrix(w)
    \/ JobRelax(w)
    \/ JobLoopEnd(w)
    \/ JobLockCosts(w)
    \/ JobStore(w)
    \/ WorkerSend(w)

\* The loop test of get(): another round, or `if jobs_err > 0 { return None; }`,
\* or on to `self.costs.lock()`.
GetAfterLoop ==
    /\ mainpc = "get_loop"
    /\ IF GetWaits(caller.jobs_ok, caller.jobs_err)
       THEN /\ mainpc' = "get_jobs_ok"
            /\ UNCHANGED <<caller, getRet>>
       ELSE IF GetFailed(caller.jobs_err)
       THEN /\ mainpc' = "ready"
            /\ caller' = << >>
            /\ getRet' = [node |-> caller.node, jobs_ok |-> caller.jobs_ok,
                          jobs_err |-> caller.jobs_err, value |-> None]
       ELSE /\ mainpc' = "get_lock_costs"
            /\ UNCHANGED <<caller, getRet>>
    /\ UNCHANGED <<storeVars, history, nodes, costs, workers, jobQueue, resultChan,
                   received_ok, received_err, locks, calcRet>>

\* `self.costs.lock()` (line 270)
GetLockCosts ==
    /\ mainpc = "get_lock_costs"
    /\ locks["costs"] = Free
    /\ locks' = [locks EXCEPT !["costs"] = ByCaller]
    /\ mainpc' = "get_costs"
    /\ UNCHANGED <<storeVars, history, nodes, costs, workers, jobQueue, resultChan,
                   received_ok, received_err, caller, calcRet, getRet>>

\* `.get(&node)?.clone()` under the lock, which the end of the statement
\* releases, and the return (lines 273-274).
GetRead ==
    /\ mainpc = "get_costs"
    /\ locks["costs"] = ByCaller
    /\ locks' = Release("costs")
    /\ mainpc' = "ready"
    /\ caller' = << >>
    /\ getRet' = [node |-> caller.node, jobs_ok |-> caller.jobs_ok,
                  jobs_err |-> caller.jobs_err, value |-> CostsGet(caller.node)]
    /\ UNCHANGED <<storeVars, history, nodes, costs, workers, jobQueue, resultChan,
                   received_ok, received_err, calcRet>>

LockMainStep ==
    \/ Calculate
    \/ CalculateStep
    \/ \E node \in 0..(nodes - 1) : GetCall(node)
    \/ GetAfterLoop
    \/ GetJobsOk
    \/ GetJobsErr
    \/ GetLockCosts
    \/ GetRead
    \/ Drop
    \/ DropSend
    \/ DropJoin

NextLocks ==
    \/ \E threads \in 1..MaxThreads : MtdDijkstraNew(threads, Total(matrix))
    \/ LockMainStep
    \/ \E w \in DOMAIN workers : LockWorkerStep(w)

\* Every thread that can take a step eventually takes one.
FairnessLocks ==
    /\ WF_vars(\E threads \in 1..MaxThreads : MtdDijkstraNew(threads, Total(matrix)))
    /\ WF_vars(LockMainStep)
    /\ \A w \in 0..(MaxThreads - 1) : WF_vars(w \in DOMAIN workers /\ LockWorkerStep(w))

SpecLocks == InitLive /\ [][NextLocks]_vars /\ FairnessLocks

\* The threads: the workers and the calling thread, named as in ByCaller.
Threads == DOMAIN workers \cup {ByCaller[1]}

\* The mutex the thread t is waiting for, if any: Some(name) or None.
WaitsFor(t) ==
    IF t = ByCaller[1]
    THEN IF mainpc = "get_lock_costs" THEN Some("costs") ELSE None
    ELSE CASE workers[t].pc = "lock_recv" -> Some("job_rx")
           [] workers[t].pc = "lock_tx" -> Some("result_tx")
           [] workers[t].pc = "lock_matrix" -> Some("matrix")
           [] workers[t].pc = "lock_costs" -> Some("costs")
           [] OTHER -> None

Waiting(t) == t \in Threads /\ WaitsFor(t) # None

\* The threads that t waits for, directly or through at most k other threads.
RECURSIVE WaitChain(_, _)
WaitChain(t, k) ==
    IF k = 0 \/ WaitsFor(t) = None THEN {}
    ELSE LET holder == locks[WaitsFor(t)[1]]
         IN  IF holder = Free THEN {}
             ELSE {holder[1]} \cup WaitChain(holder[1], k - 1)

\* No thread waits for a mutex that is held, directly or through other
\* waiting threads, by a thread that waits for a mutex the first one holds.
NoLockCycle == \A t \in Threads : t \notin WaitChain(t, Cardinality(Threads))

\* The mutexes the thread t holds.
HeldBy(t) == {l \in DOMAIN locks : locks[l] = Some(t)}

\* A worker holds the mutex of the matrix only while it relaxes, never while
\* it waits for the mutex of the result table; it waits for the mutex of the
\* job queue or of the result channel holding nothing.
LockOrder ==
    \A w \in DOMAIN workers :
        /\ workers[w].pc = "lock_costs" => "matrix" \notin HeldBy(w)
        /\ workers[w].pc = "lock_matrix" => "costs" \notin HeldBy(w)
        /\ workers[w].pc \in {"lock_recv", "lock_tx"} => HeldBy(w) = {}

\* The caller holds no mutex while it waits for the workers: between the
\* polls of get() and in the joins of drop.
CallerWaitsEmptyHanded ==
    mainpc \in {"get_loop", "get_jobs_ok", "get_jobs_err", "drop_join"} =>
        HeldBy(ByCaller[1]) = {}

\* No worker relaxes edges forever: the while loop of every job ends.
JobLoopsEnd ==
    \A w \in 0..(MaxThreads - 1) :
        <>[](~(w \in DOMAIN workers /\ workers[w].pc = "relax"))

\* Every wait of a thread for a mutex ends.
EveryWaitEnds ==
    \A t \in (0..(MaxThreads - 1)) \cup {ByCaller[1]} :
        Waiting(t) ~> ~Waiting(t)

\* The thread t waits for a mutex other than that of the job queue.
WaitingInJob(t) == Waiting(t) /\ WaitsFor(t) # Some("job_rx")

\* Every wait for the mutex of the result channel, of the matrix or of the
\* result table ends.
EveryJobWaitEnds ==
    \A t \in (0..(MaxThreads - 1)) \cup {ByCaller[1]} :
        WaitingInJob(t) ~> ~WaitingInJob(t)

\* C20 as stated: no cycle of threads waiting for each other's mutexes, by
\* the order in which the workers take them and because the caller waits
\* empty-handed; and whenever all job bodies terminate, no thread waits
\* forever for a mutex.
C20_AsStated ==
    /\ [](NoLockCycle /\ LockOrder /\ CallerWaitsEmptyHanded)
    /\ JobLoopsEnd => EveryWaitEnds

\* C20, amended: no cycle of threads waiting for each other's mutexes, by
\* the order in which the workers take them and because the caller waits
\* empty-handed; whenever all job bodies terminate, no thread waits forever
\* for the mutex of the result channel, of the matrix or of the result table,
\* and if moreover the caller eventually drops the engine, no thread waits
\* forever for the mutex of the job queue either.
C20_NoLockDeadlock ==
    /\ [](NoLockCycle /\ LockOrder /\ CallerWaitsEmptyHanded)
    /\ JobLoopsEnd => EveryJobWaitEnds
    /\ (JobLoopsEnd /\ <>(mainpc = "drop_send")) => EveryWaitEnds

\* While drop is under way a worker relaxes under the mutexes of the result
\* channel and of the matrix, and another worker waits for the former.
C20_Witness ==
    /\ mainpc \in {"drop_send", "drop_join"}
    /\ \E v, w \in DOMAIN workers :
          /\ workers[v].pc = "lock_tx"
          /\ workers[w].pc = "relax"
          /\ HeldBy(w) = {"result_tx", "matrix"}

====
